---- MODULE Spec2Model ----
(***************************************************************************)
(* A model of the ASN.1 DER codec of src/asn1.js: the length codec, the    *)
(* OID codec, the wrapping primitives, the structural walker and the two   *)
(* field extractors (decodeSerialNumber, decodeAKI).                       *)
(*                                                                         *)
(* Bytes are the integers 0..255 and a Buffer is a sequence of bytes.      *)
(* JavaScript indexes from 0; At and slice translate to TLA+'s 1-based     *)
(* sequences.  `undefined` results are records with ok = FALSE; a byte     *)
(* read outside a buffer is Undef.  Bitwise operators work on 32-bit       *)
(* signed integers in JavaScript; ShiftLeftOr keeps that width.            *)
(***************************************************************************)
EXTENDS Integers, Sequences, FiniteSets, TLC

VARIABLES pc, origin, buffer, call, result, start, parts, iters

vars == <<pc, origin, buffer, call, result, start, parts, iters>>

(***************************************************************************)
(* The TAGS table.                                                         *)
(***************************************************************************)
INTEGER == 2
BIT_STRING == 3
OCTET_STRING == 4
OBJECT_IDENTIFIER == 6
SEQUENCE == 48
CONTEXT_SPECIFIC_ZERO == 160
CONTEXT_SPECIFIC_THREE == 163

(***************************************************************************)
(* JavaScript values and Buffer primitives.                                *)
(***************************************************************************)
\* The value of buffer[i] for an index outside the buffer.
Undef == -1

\* The record standing for a function's `undefined` return value.
Undefined == [ok |-> FALSE]

Min(a, b) == IF a < b THEN a ELSE b

Max(a, b) == IF a > b THEN a ELSE b

\* buffer[i]
At(buf, i) == IF i >= 0 /\ i < Len(buf) THEN buf[i + 1] ELSE Undef

\* Buffer.prototype.slice clamps both offsets to the buffer (a negative
\* offset counts from the end) and yields the empty buffer when end <= start.
adjustOffset(offset, length) ==
    IF offset < 0 THEN Max(offset + length, 0) ELSE Min(offset, length)

slice(buf, s, e) ==
    LET s1 == adjustOffset(s, Len(buf))
        e1 == adjustOffset(e, Len(buf))
    IN  IF e1 > s1 THEN SubSeq(buf, s1 + 1, e1) ELSE <<>>

\* Buffer.from(array) stores each element modulo 256.
ToByte(x) == x % 256

\* (x << k) | low  on 32-bit signed integers, for 0 <= low < 2^k:
\* the low 32 - k bits of x move up and the top bit becomes the sign.
ShiftLeftOr(x, k, low) ==
    LET keep == 2 ^ (32 - k)
        lowBits == x % keep
    IN  IF lowBits >= keep \div 2
        THEN (lowBits - keep) * (2 ^ k) + low
        ELSE lowBits * (2 ^ k) + low

HexChars == <<"0", "1", "2", "3", "4", "5", "6", "7",
              "8", "9", "a", "b", "c", "d", "e", "f">>

\* buf.toString('hex'): two lower-case digits per byte.
toHex(buf) ==
    [i \in 1..(2 * Len(buf)) |->
        IF i % 2 = 1
        THEN HexChars[(buf[(i + 1) \div 2] \div 16) + 1]
        ELSE HexChars[(buf[i \div 2] % 16) + 1]]

RECURSIVE concat(_)
\* Buffer.concat(list)
concat(list) ==
    IF list = <<>> THEN <<>> ELSE Head(list) \o concat(Tail(list))

RECURSIVE totalLength(_)
\* elements.reduce((sum, el) => sum + el.length, 0)
totalLength(elements) ==
    IF elements = <<>> THEN 0
    ELSE Len(Head(elements)) + totalLength(Tail(elements))

(***************************************************************************)
(* Length codec.                                                           *)
(***************************************************************************)
RECURSIVE lengthBytes(_, _)
\* while (temp > 0) { bytes.unshift(temp & 0xFF); temp = temp >> 8; }
lengthBytes(temp, bytes) ==
    IF temp > 0
    THEN lengthBytes(temp \div 256, <<temp % 256>> \o bytes)
    ELSE bytes

\* encodeDERLength with the short form's threshold off by one (length < 129).
encodeDERLengthShort129(length) ==
    IF length < 129
    THEN <<ToByte(length)>>
    ELSE LET bytes == lengthBytes(length, <<>>)
         IN  <<ToByte(Len(bytes) + 128)>> \o bytes

encodeDERLength(length) ==
    IF length < 128
    THEN <<ToByte(length)>>
    ELSE LET bytes == lengthBytes(length, <<>>)
         IN  <<ToByte(Len(bytes) + 128)>> \o bytes

RECURSIVE accumulate(_, _, _, _, _)
\* for (i = from; i <= to; i++) length = (length << 8) | buffer[base + i]
accumulate(buf, base, i, to, length) ==
    IF i > to THEN length
    ELSE LET b == At(buf, base + i)
         IN  accumulate(buf, base, i + 1, to,
                        ShiftLeftOr(length, 8, IF b = Undef THEN 0 ELSE b))

\* The loop over numBytes length bytes from length = 0.  A byte leaves the
\* 32-bit value after four shifts, so the loop's result is that of its
\* last four iterations.
accumulateLength(buf, base, numBytes) ==
    accumulate(buf, base, Max(1, numBytes - 3), numBytes, 0)

readDERLength(buf) ==
    LET b0 == At(buf, 0)
    IN  IF b0 # Undef /\ b0 < 128 THEN b0
        ELSE LET numBytes == IF b0 = Undef THEN 0 ELSE b0 % 128
             IN  accumulateLength(buf, 0, numBytes)

skipDERLength(buf) ==
    LET b0 == At(buf, 0)
    IN  IF b0 # Undef /\ b0 < 128 THEN 1
        ELSE (IF b0 = Undef THEN 0 ELSE b0 % 128) + 1

readASN1Length(buf, offset) ==
    IF offset >= Len(buf) THEN Undefined
    ELSE LET lengthByte == At(buf, offset)
             lengthOfLength == IF lengthByte = Undef THEN 0 ELSE lengthByte % 128
         IN  IF lengthByte # Undef /\ lengthByte < 128
             THEN [ok |-> TRUE, length |-> lengthByte, lengthOfLength |-> 1]
             ELSE IF lengthOfLength = 0 THEN Undefined
             ELSE IF offset + lengthOfLength >= Len(buf) THEN Undefined
             ELSE [ok |-> TRUE,
                   length |-> accumulateLength(buf, offset, lengthOfLength),
                   lengthOfLength |-> lengthOfLength]

(***************************************************************************)
(* Strings.  A string is the sequence of its characters, so "2.5" is       *)
(* <<"2", ".", "5">>.                                                      *)
(***************************************************************************)
Digits == <<"0", "1", "2", "3", "4", "5", "6", "7", "8", "9">>

DigitValue(c) == CHOOSE d \in 0..9 : Digits[d + 1] = c

RECURSIVE digitsOf(_)
digitsOf(n) ==
    IF n < 10 THEN <<Digits[n + 1]>>
    ELSE digitsOf(n \div 10) \o <<Digits[(n % 10) + 1]>>

\* Number.prototype.toString of an integer.
toString(n) == IF n < 0 THEN <<"-">> \o digitsOf(-n) ELSE digitsOf(n)

\* What NaN.toString() yields.
NaNString == <<"N", "a", "N">>

RECURSIVE digitsValue(_, _)
digitsValue(str, acc) ==
    IF str = <<>> THEN acc
    ELSE digitsValue(Tail(str), acc * 10 + DigitValue(Head(str)))

\* Number(str) for the strings split hands to it here: decimal digits with
\* an optional leading minus sign; Number("") is 0.
Number(str) ==
    IF str = <<>> THEN 0
    ELSE IF Head(str) = "-" THEN -digitsValue(Tail(str), 0)
    ELSE digitsValue(str, 0)

RECURSIVE split(_, _, _)
\* str.split('.'): the pieces between the dots, from position i on, with
\* cur the piece being read.
split(str, i, cur) ==
    IF i > Len(str) THEN <<cur>>
    ELSE IF str[i] = "." THEN <<cur>> \o split(str, i + 1, <<>>)
    ELSE split(str, i + 1, Append(cur, str[i]))

RECURSIVE join(_)
\* list.join('.')
join(list) ==
    IF list = <<>> THEN <<>>
    ELSE IF Len(list) = 1 THEN Head(list)
    ELSE Head(list) \o <<".">> \o join(Tail(list))

(***************************************************************************)
(* OID codec.                                                              *)
(***************************************************************************)
RECURSIVE base128(_, _)
\* while (number > 0) { bytes.unshift((number & 0x7F) | (bytes.length ? 0x80 : 0));
\*                      number = number >> 7; }
base128(number, bytes) ==
    IF number > 0
    THEN base128(number \div 128,
                 <<(number % 128) + (IF Len(bytes) > 0 THEN 128 ELSE 0)>> \o bytes)
    ELSE bytes

RECURSIVE encodeComponents(_, _, _)
\* The loop over numbers[2..]: the encoded body so far, or a throw.
encodeComponents(numbers, i, encoded) ==
    IF i > Len(numbers) THEN [ok |-> TRUE, val |-> encoded]
    ELSE LET number == numbers[i]
         IN  IF number < 0 THEN [ok |-> FALSE, error |-> "Invalid OID"]
             ELSE IF number < 128
             THEN encodeComponents(numbers, i + 1, Append(encoded, number))
             ELSE encodeComponents(numbers, i + 1, encoded \o base128(number, <<>>))

\* oid.split('.').map(Number)
numbersOf(oid) ==
    LET pieces == split(oid, 1, <<>>)
    IN  [k \in 1..Len(pieces) |-> Number(pieces[k])]

\* Returns [ok |-> TRUE, val |-> bytes], or ok = FALSE for a thrown Error.
encodeDERObjectIdentifier(oid) ==
    LET numbers == numbersOf(oid)
    IN  IF Len(numbers) < 2 THEN [ok |-> FALSE, error |-> "Invalid OID"]
        ELSE LET first == numbers[1] * 40 + numbers[2]
                 body == encodeComponents(numbers, 3, <<first>>)
             IN  IF ~body.ok THEN body
                 ELSE [ok |-> TRUE,
                       val |-> <<OBJECT_IDENTIFIER>>
                               \o <<ToByte(Len(body.val))>>
                               \o [k \in 1..Len(body.val) |-> ToByte(body.val[k])]]

RECURSIVE decodeComponents(_, _)
\* The loop over oidBytes[1..] from the loop state st = [i, currentComponent,
\* oidComponents]: closes a component at each byte without 0x80.
decodeComponents(oidBytes, st) ==
    IF st.i >= Len(oidBytes) THEN st.oidComponents
    ELSE LET b == oidBytes[st.i + 1]
             cur == ShiftLeftOr(st.currentComponent, 7, b % 128)
         IN  IF b < 128
             THEN decodeComponents(oidBytes,
                      [i |-> st.i + 1, currentComponent |-> 0,
                       oidComponents |-> Append(st.oidComponents, toString(cur))])
             ELSE decodeComponents(oidBytes,
                      [i |-> st.i + 1, currentComponent |-> cur,
                       oidComponents |-> st.oidComponents])

\* Returns [ok |-> TRUE, val |-> dotted string], or Undefined.
bytesToOID(byteArray) ==
    IF At(byteArray, 0) # OBJECT_IDENTIFIER THEN Undefined
    ELSE LET length == At(byteArray, 1)
             oidBytes == slice(byteArray, 2, IF length = Undef THEN 0 ELSE 2 + length)
             firstByte == At(oidBytes, 0)
             firstComponent ==
                 IF firstByte = Undef THEN NaNString ELSE toString(firstByte \div 40)
             secondComponent ==
                 IF firstByte = Undef THEN NaNString ELSE toString(firstByte % 40)
         IN  [ok |-> TRUE,
              val |-> join(decodeComponents(oidBytes,
                           [i |-> 1, currentComponent |-> 0,
                            oidComponents |-> <<firstComponent, secondComponent>>]))]

(***************************************************************************)
(* Wrapping primitives.                                                    *)
(***************************************************************************)
\* encodeDERSequence with the number of children, not the sum of their byte
\* lengths, in the length field.
encodeDERSequenceCountLength(elements) ==
    <<SEQUENCE>> \o encodeDERLength(Len(elements)) \o concat(elements)

encodeDERSequence(elements) ==
    <<SEQUENCE>> \o encodeDERLength(totalLength(elements)) \o concat(elements)

encodeDEROctetString(data) ==
    <<OCTET_STRING>> \o encodeDERLength(Len(data)) \o data

encodeDERContextSpecific(tag, value) ==
    <<CONTEXT_SPECIFIC_ZERO + tag>> \o encodeDERLength(Len(value)) \o value

encodeDERBitString(data) ==
    <<BIT_STRING>> \o encodeDERLength(Len(data) + 1) \o <<0>> \o data

(***************************************************************************)
(* Structural walker.                                                      *)
(***************************************************************************)
\* Returns [ok |-> TRUE, val |-> content], or Undefined.
readOuterSequence(certBuffer) ==
    LET seq1 == readASN1Length(certBuffer, 1)
    IN  IF seq1.ok
        THEN LET st == 2 + seq1.lengthOfLength
             IN  [ok |-> TRUE, val |-> slice(certBuffer, st, st + seq1.length)]
        ELSE Undefined

\* One iteration of readSequenceParts' while loop from the loop state
\* st = [start, parts]; a failed length read leaves the state as it is.
readSequencePartsBody(innerSequence, st) ==
    LET seq1 == readASN1Length(innerSequence, st.start)
    IN  IF seq1.ok
        THEN LET s1 == st.start + seq1.lengthOfLength
                 s2 == IF seq1.lengthOfLength = 2 THEN s1 + 1 ELSE s1
             IN  [start |-> s2 + seq1.length + 1,
                  parts |-> Append(st.parts,
                                   slice(innerSequence, s2, s2 + seq1.length))]
        ELSE st

RECURSIVE readSequencePartsLoop(_, _, _)
\* The while loop run to its end.  The loop cannot end once an iteration
\* leaves the state unchanged; fuel bounds the iterations of a loop whose
\* cursor moves backwards (a negative 32-bit length).
readSequencePartsLoop(innerSequence, st, fuel) ==
    IF ~(st.start < Len(innerSequence))
    THEN IF Len(st.parts) > 0 THEN [ok |-> TRUE, val |-> st.parts] ELSE Undefined
    ELSE LET next == readSequencePartsBody(innerSequence, st)
         IN  IF next = st \/ fuel = 0 THEN [ok |-> FALSE, hang |-> TRUE]
             ELSE readSequencePartsLoop(innerSequence, next, fuel - 1)

\* Returns [ok |-> TRUE, val |-> parts], Undefined, or ok = FALSE with
\* hang = TRUE when the loop never ends.
readSequenceParts(innerSequence) ==
    readSequencePartsLoop(innerSequence, [start |-> 1, parts |-> <<>>],
                          Len(innerSequence) + 1)

(***************************************************************************)
(* Field extractors.  An extractor returns [ok |-> TRUE, val |-> hex],     *)
(* Undefined, or ok = FALSE with throw = TRUE (a TypeError on a property   *)
(* of undefined) or hang = TRUE (a loop that never ends).                  *)
(***************************************************************************)
Throws == [ok |-> FALSE, throw |-> TRUE]

Hangs == [ok |-> FALSE, hang |-> TRUE]

decodeSerialNumber(certBuffer) ==
    IF At(certBuffer, 0) # SEQUENCE THEN Undefined
    ELSE LET seq1 == readASN1Length(certBuffer, 1)
         IN  IF ~seq1.ok THEN Undefined
             ELSE LET o1 == 1 + seq1.lengthOfLength + 2
                      seq2 == readASN1Length(certBuffer, o1)
                  IN  IF ~seq2.ok THEN Undefined
                      ELSE LET o2 == o1 + seq2.lengthOfLength + 2
                               versionLen == At(certBuffer, o2)
                           IN  IF At(certBuffer, o2 - 1) # CONTEXT_SPECIFIC_ZERO
                               THEN Undefined
                               \* offset is NaN and certBuffer[NaN] is undefined
                               ELSE IF versionLen = Undef THEN Undefined
                               ELSE LET o3 == o2 + versionLen + 2
                                        serialLen == At(certBuffer, o3)
                                        \* an end of NaN is adjusted to 0
                                        end == IF serialLen = Undef THEN 0
                                               ELSE o3 + serialLen + 1
                                    IN  IF At(certBuffer, o3 - 1) # INTEGER
                                        THEN Undefined
                                        ELSE [ok |-> TRUE,
                                              val |-> toHex(slice(certBuffer, o3 + 1, end))]

RECURSIVE findExtensions(_, _, _)
\* decodeAKI's scan loop for CONTEXT_SPECIFIC_THREE: the offset and the
\* check flag it leaves, or Undefined.  The cursor moves forward unless a
\* 32-bit length is negative; fuel bounds the iterations in that case.
findExtensions(tbs, offset, fuel) ==
    IF At(tbs, offset - 1) = CONTEXT_SPECIFIC_THREE
    THEN [ok |-> TRUE, offset |-> offset, check |-> TRUE]
    ELSE LET skipSequences == readASN1Length(tbs, offset)
         IN  IF ~skipSequences.ok THEN Undefined
             ELSE IF At(tbs, offset) = CONTEXT_SPECIFIC_THREE
             THEN [ok |-> TRUE, offset |-> offset + 1, check |-> FALSE]
             ELSE IF fuel = 0 THEN Hangs
             ELSE findExtensions(tbs,
                     offset + 1 + skipSequences.length + skipSequences.lengthOfLength,
                     fuel - 1)

\* "2.5.29.35"
AKI_OID == <<"2", ".", "5", ".", "2", "9", ".", "3", "5">>

RECURSIVE lastAKI(_, _)
\* for (index ...) bytesToOID(innerExtensions[index]) === "2.5.29.35"
\*                 && (rawAKI = innerExtensions[index]);
\* The loop leaves the last element that matches among the first index
\* elements, or undefined.
lastAKI(innerExtensions, index) ==
    IF index = 0 THEN Undefined
    ELSE LET oid == bytesToOID(innerExtensions[index])
         IN  IF oid.ok /\ oid.val = AKI_OID
             THEN [ok |-> TRUE, val |-> innerExtensions[index]]
             ELSE lastAKI(innerExtensions, index - 1)

\* Math.trunc(x / 2)
TruncHalf(x) == IF x >= 0 THEN x \div 2 ELSE -((-x) \div 2)

\* Lines 325-328: the key identifier cut out of the matched extension.
extractKeyIdentifier(rawAKI) ==
    LET akiParts == readSequenceParts(rawAKI)
    IN  IF ~akiParts.ok
        THEN (IF akiParts = Hangs THEN Hangs ELSE Throws)
        ELSE IF Len(akiParts.val) < 2 THEN Throws
        ELSE LET part == akiParts.val[2]
                 akiLength == readASN1Length(part, 0)
             IN  IF ~akiLength.ok THEN Throws
                 ELSE [ok |-> TRUE,
                       val |-> toHex(slice(part, akiLength.lengthOfLength + 3,
                                 TruncHalf(akiLength.lengthOfLength + akiLength.length)))]

\* Lines 286-323: from the extensions' length to the matched extension.
decodeExtensions(tbs, found) ==
    LET extensions == readASN1Length(tbs, found.offset)
    IN  IF ~extensions.ok THEN Undefined
        ELSE LET offset == found.offset + extensions.lengthOfLength
                 outerSequence ==
                     readOuterSequence(
                         slice(tbs,
                               IF found.check THEN offset + 1 ELSE offset - 1,
                               offset + extensions.length + 1))
             IN  IF ~outerSequence.ok THEN Undefined
                 ELSE LET innerExtensions == readSequenceParts(outerSequence.val)
                      IN  IF ~innerExtensions.ok THEN innerExtensions
                          ELSE LET rawAKI == lastAKI(innerExtensions.val, Len(innerExtensions.val))
                               IN  IF ~rawAKI.ok THEN Undefined
                                   ELSE extractKeyIdentifier(rawAKI.val)

\* Lines 227-284: the walk over tbsCertificate up to the extensions.
decodeTBS(tbs) ==
    IF At(tbs, 0) # CONTEXT_SPECIFIC_ZERO THEN Undefined
    ELSE LET versionLen == readASN1Length(tbs, 1)
         IN  IF ~versionLen.ok THEN Throws
             ELSE LET o1 == 1 + versionLen.length + versionLen.lengthOfLength
                      serialNumberLen == readASN1Length(tbs, o1 + 1)
                  IN  IF At(tbs, o1) # INTEGER THEN Undefined
                      ELSE IF ~serialNumberLen.ok THEN Throws
                      ELSE LET o2 == o1 + 1 + serialNumberLen.length
                                        + serialNumberLen.lengthOfLength
                               found == findExtensions(tbs, o2 + 1, Len(tbs) + 1)
                           IN  IF At(tbs, o2) # SEQUENCE THEN Undefined
                               ELSE IF ~found.ok THEN found
                               ELSE decodeExtensions(tbs, found)

decodeAKI(certBuffer) ==
    IF At(certBuffer, 0) # SEQUENCE THEN Undefined
    ELSE LET certificate == readOuterSequence(certBuffer)
         IN  IF ~certificate.ok THEN Undefined
             ELSE LET tbsCertficate == readOuterSequence(certificate.val)
                  IN  IF ~tbsCertficate.ok THEN Undefined
                      ELSE decodeTBS(tbsCertficate.val)

(***************************************************************************)
(* Index reads.  The reads buf[i] that a run of an extractor performs, as  *)
(* records [index |-> i, length |-> buf.length]; a slice is a buffer of    *)
(* its own length.                                                         *)
(***************************************************************************)
ReadsAt(buf, indices) == {[index |-> i, length |-> Len(buf)] : i \in indices}

\* readASN1Length reads nothing when offset >= buffer.length, else the byte
\* at offset and, for a long form that passes the size check, the
\* lengthOfLength bytes after it.
readASN1LengthReads(buf, offset) ==
    IF offset >= Len(buf) THEN {}
    ELSE ReadsAt(buf, {offset})
         \cup (IF At(buf, offset) >= 128 /\ readASN1Length(buf, offset).ok
               THEN ReadsAt(buf, (offset + 1)..(offset + readASN1Length(buf, offset).lengthOfLength))
               ELSE {})

\* The reads of decodeSerialNumber, statement by statement.
decodeSerialNumberReads(certBuffer) ==
    LET seq1 == readASN1Length(certBuffer, 1)
        o1 == 1 + seq1.lengthOfLength + 2
        seq2 == readASN1Length(certBuffer, o1)
        o2 == o1 + seq2.lengthOfLength + 2
        versionLen == At(certBuffer, o2)
        o3 == o2 + versionLen + 2
    IN  ReadsAt(certBuffer, {0})
        \cup (IF At(certBuffer, 0) # SEQUENCE THEN {}
              ELSE readASN1LengthReads(certBuffer, 1)
                   \cup (IF ~seq1.ok THEN {}
              ELSE readASN1LengthReads(certBuffer, o1)
                   \cup (IF ~seq2.ok THEN {}
              ELSE ReadsAt(certBuffer, {o2 - 1})
                   \cup (IF At(certBuffer, o2 - 1) # CONTEXT_SPECIFIC_ZERO THEN {}
              \* offset += certBuffer[offset] + 2
              ELSE ReadsAt(certBuffer, {o2})
                   \cup (IF versionLen = Undef THEN {}
              ELSE ReadsAt(certBuffer, {o3 - 1})
                   \cup (IF At(certBuffer, o3 - 1) # INTEGER THEN {}
              \* certBuffer.slice(offset + 1, offset + certBuffer[offset] + 1)
              ELSE ReadsAt(certBuffer, {o3})))))))

RECURSIVE findExtensionsReads(_, _, _)
\* The reads of decodeAKI's scan loop and of the check that follows it.
findExtensionsReads(tbs, offset, fuel) ==
    ReadsAt(tbs, {offset - 1})
    \cup (IF At(tbs, offset - 1) = CONTEXT_SPECIFIC_THREE THEN {}
          ELSE readASN1LengthReads(tbs, offset)
               \cup (IF ~readASN1Length(tbs, offset).ok THEN {}
          ELSE ReadsAt(tbs, {offset})
               \cup (IF At(tbs, offset) = CONTEXT_SPECIFIC_THREE \/ fuel = 0 THEN {}
          ELSE findExtensionsReads(tbs,
                   offset + 1 + readASN1Length(tbs, offset).length
                              + readASN1Length(tbs, offset).lengthOfLength,
                   fuel - 1))))

\* The reads of lines 227-284 on tbsCertficate.
decodeTBSReads(tbs) ==
    LET versionLen == readASN1Length(tbs, 1)
        o1 == 1 + versionLen.length + versionLen.lengthOfLength
        serialNumberLen == readASN1Length(tbs, o1 + 1)
        o2 == o1 + 1 + serialNumberLen.length + serialNumberLen.lengthOfLength
    IN  ReadsAt(tbs, {0})
        \cup (IF At(tbs, 0) # CONTEXT_SPECIFIC_ZERO THEN {}
              ELSE readASN1LengthReads(tbs, 1)
                   \cup (IF ~versionLen.ok THEN {}
              ELSE ReadsAt(tbs, {o1})
                   \cup (IF At(tbs, o1) # INTEGER THEN {}
              ELSE readASN1LengthReads(tbs, o1 + 1)
                   \cup (IF ~serialNumberLen.ok THEN {}
              ELSE ReadsAt(tbs, {o2})
                   \cup (IF At(tbs, o2) # SEQUENCE THEN {}
              ELSE findExtensionsReads(tbs, o2 + 1, Len(tbs) + 1))))))

\* The reads of decodeAKI up to the extensions (lines 206-284): on
\* certBuffer, on the certificate slice and on the tbsCertficate slice.
decodeAKIReads(certBuffer) ==
    LET certificate == readOuterSequence(certBuffer)
        tbsCertficate == readOuterSequence(certificate.val)
    IN  ReadsAt(certBuffer, {0})
        \cup (IF At(certBuffer, 0) # SEQUENCE THEN {}
              ELSE readASN1LengthReads(certBuffer, 1)
                   \cup (IF ~certificate.ok THEN {}
              ELSE readASN1LengthReads(certificate.val, 1)
                   \cup (IF ~tbsCertficate.ok THEN {}
              ELSE decodeTBSReads(tbsCertficate.val))))

(***************************************************************************)
(* Inputs.  The bounds of the model, and the buffers and values the        *)
(* operations are applied to.  Certificates follow the grammar             *)
(*   Certificate    ::= SEQUENCE { tbsCertificate, signatureAlgorithm,     *)
(*                                 signatureValue }                        *)
(*   tbsCertificate ::= SEQUENCE { version [0], serialNumber INTEGER,      *)
(*                                 signature, issuer, validity, subject,   *)
(*                                 subjectPublicKeyInfo, extensions [3] }  *)
(* and are assembled with the codec's own encoders, so that every length   *)
(* field has the form (short or long) DER prescribes for its value.        *)
(***************************************************************************)
MaxLength == 300
MaxOIDLen == 3
MaxChildren == 3
MaxRegionLen == 4
MaxSerialLen == 3
MaxKeyIdLen == 21
MaxIters == 6

\* Lengths: a dense range across the short/long boundary and the values at
\* which the long form grows by a byte.
LengthInputs ==
    (0..MaxLength) \cup {65535, 65536, 16777215, 16777216}

OIDComponents == {-1, 0, 1, 2, 5, 39, 40, 100, 127, 128, 840, 16383, 16384, 113549}

\* The dotted string of a list of numbers.
Dotted(numbers) == join([k \in 1..Len(numbers) |-> toString(numbers[k])])

OIDInputs ==
    {Dotted(numbers) : numbers \in UNION {[1..n -> OIDComponents] : n \in 1..MaxOIDLen}}
    \cup {Dotted(<<1, 2, 840, 113549, 1, 1, 11>>), AKI_OID}

\* n bytes of content that no walker interprets.
Filler(n) == [i \in 1..n |-> 85]

OctetInputs == {<<>>, <<170, 187>>, Filler(126), Filler(128)}

Children == {encodeDEROctetString(d) : d \in OctetInputs} \cup {<<5, 0>>}

ElementLists == UNION {[1..n -> Children] : n \in 0..MaxChildren}

RegionBytes == {0, 1, 2, 6, 128, 129}

Regions == UNION {[1..n -> RegionBytes] : n \in 0..MaxRegionLen}

\* A tag, the DER length of the content, the content.
TLV(tag, content) == <<tag>> \o encodeDERLength(Len(content)) \o content

\* A sibling field the walkers skip: a SEQUENCE holding an OCTET STRING.
Field(n) == encodeDERSequence(<<encodeDEROctetString(Filler(n))>>)

Version == encodeDERContextSpecific(0, <<INTEGER, 1, 2>>)

KeyId(n) == [i \in 1..n |-> 192 + i]

Extension(oid, critical, value) ==
    encodeDERSequence(<<encodeDERObjectIdentifier(oid).val>>
                      \o (IF critical THEN <<<<1, 1, 255>>>> ELSE <<>>)
                      \o <<encodeDEROctetString(value)>>)

\* AuthorityKeyIdentifier ::= SEQUENCE { keyIdentifier [0] IMPLICIT OCTET STRING,
\*                                       authorityCertSerialNumber [2] OPTIONAL }
AKIExtension(aki) ==
    Extension(AKI_OID, FALSE,
              encodeDERSequence(<<TLV(128, KeyId(aki.n))>>
                                \o (IF aki.trailing THEN <<TLV(130, <<9>>)>> ELSE <<>>)))

PreExtensions(kind) ==
    CASE kind = "none" -> <<>>
      [] kind = "basic" -> <<Extension(Dotted(<<2, 5, 29, 19>>), TRUE, <<SEQUENCE, 0>>)>>
      [] kind = "padded" -> <<Extension(Dotted(<<2, 5, 29, 14>>), FALSE, TLV(OCTET_STRING, Filler(53))),
                              Extension(Dotted(<<2, 5, 29, 32>>), FALSE, TLV(SEQUENCE, Filler(53)))>>
      [] kind = "long1" -> <<Extension(Dotted(<<2, 5, 29, 17>>), FALSE, TLV(SEQUENCE, Filler(130)))>>
      [] kind = "named" -> <<Extension(Dotted(<<2, 5, 29, 17>>), FALSE, TLV(SEQUENCE, Filler(130))),
                             Extension(Dotted(<<2, 5, 29, 14>>), FALSE, TLV(OCTET_STRING, KeyId(20)))>>
      [] kind = "long2" -> <<Extension(Dotted(<<2, 5, 29, 17>>), FALSE, TLV(SEQUENCE, Filler(260)))>>

PostExtensions(kind) ==
    IF kind = "none" THEN <<>>
    ELSE <<Extension(Dotted(<<2, 5, 29, 15>>), TRUE, <<BIT_STRING, 2, 5, 160>>)>>

ExtensionList(c) ==
    PreExtensions(c.pre)
    \o (IF c.aki.present THEN <<AKIExtension(c.aki)>> ELSE <<>>)
    \o PostExtensions(c.post)

TBSContent(c) ==
    concat(<<Version, TLV(INTEGER, c.serial), Field(0), Field(0), Field(0), Field(0),
             Field(c.spki),
             encodeDERContextSpecific(3, encodeDERSequence(ExtensionList(c)))>>)

CertificateContent(c) ==
    concat(<<encodeDERSequence(<<TBSContent(c)>>), Field(0),
             encodeDERBitString(Filler(c.sig))>>)

Certificate(c) == encodeDERSequence(<<CertificateContent(c)>>)

Serials == {[i \in 1..n |-> 16 * i + n] : n \in 1..MaxSerialLen}

KeyIdLens == {4} \cup (19..MaxKeyIdLen)

AKIs ==
    {[present |-> FALSE, n |-> 0, trailing |-> FALSE]}
    \cup {[present |-> TRUE, n |-> n, trailing |-> t] :
            n \in KeyIdLens, t \in BOOLEAN}

Certificates ==
    [serial : Serials, spki : {0, 130, 260}, sig : {0, 130},
     pre : {"none", "basic", "padded", "long1", "named", "long2"},
     aki : AKIs, post : {"none", "basic"}]

\* The number of bytes of a TLV's tag and length field.
HeaderLen(content) == 1 + Len(encodeDERLength(Len(content)))

\* The index of the first content byte of the serialNumber INTEGER.
SerialStart(c) ==
    HeaderLen(CertificateContent(c)) + HeaderLen(TBSContent(c)) + Len(Version) + 2

\* The index just past the last content byte of the serialNumber INTEGER.
SerialEnd(c) == SerialStart(c) + Len(c.serial)

\* The certificates that are also loaded cut short.
TruncationCertificates ==
    {c \in Certificates : c.pre = "none" /\ ~c.aki.present /\ c.post = "none"}

(***************************************************************************)
(* The state machine: a caller obtains a buffer (by encoding a value or by *)
(* loading bytes), applies one decoding operation to it, and reads the     *)
(* result.  readSequenceParts runs one loop iteration per step.  pc is     *)
(* "idle", "ready" (a buffer is there), "loop" (inside readSequenceParts), *)
(* "done" (the call returned or threw) or "hung" (it never returns).       *)
(***************************************************************************)
NoCall == [fn |-> "none"]

Init ==
    /\ pc = "idle"
    /\ origin = [fn |-> "none"]
    /\ buffer = <<>>
    /\ call = NoCall
    /\ result = Undefined
    /\ start = 0
    /\ parts = <<>>
    /\ iters = 0

Obtain(from, bytes) ==
    /\ pc' = "ready"
    /\ origin' = from
    /\ buffer' = bytes
    /\ UNCHANGED <<call, result, start, parts, iters>>

\* A call that never returns leaves the caller hung.
Return(fn, value) ==
    /\ pc' = IF value = Hangs THEN "hung" ELSE "done"
    /\ call' = fn
    /\ result' = value
    /\ UNCHANGED <<origin, buffer, start, parts, iters>>

CallEncodeDERLength ==
    /\ pc = "idle"
    /\ \E n \in LengthInputs :
          Obtain([fn |-> "encodeDERLength", n |-> n], encodeDERLength(n))

\* A thrown Error ends the call with no buffer.
CallEncodeDERObjectIdentifier ==
    /\ pc = "idle"
    /\ \E oid \in OIDInputs :
          LET r == encodeDERObjectIdentifier(oid)
          IN  /\ origin' = [fn |-> "encodeDERObjectIdentifier", oid |-> oid]
              /\ call' = [fn |-> "encodeDERObjectIdentifier"]
              /\ result' = r
              /\ buffer' = IF r.ok THEN r.val ELSE <<>>
              /\ pc' = IF r.ok THEN "ready" ELSE "done"
              /\ UNCHANGED <<start, parts, iters>>

CallEncodeDEROctetString ==
    /\ pc = "idle"
    /\ \E d \in OctetInputs :
          Obtain([fn |-> "encodeDEROctetString", data |-> d], encodeDEROctetString(d))

CallEncodeDERSequence ==
    /\ pc = "idle"
    /\ \E elements \in ElementLists :
          Obtain([fn |-> "encodeDERSequence", elements |-> elements],
                 encodeDERSequence(elements))

LoadCertificate ==
    /\ pc = "idle"
    /\ \E c \in Certificates :
          LET cert == Certificate(c)
          IN  Obtain([fn |-> "certificate", cert |-> c, cut |-> Len(cert)], cert)

LoadTruncated ==
    /\ pc = "idle"
    /\ \E c \in TruncationCertificates :
          \E k \in 0..(SerialEnd(c) - 1) :
              Obtain([fn |-> "truncated", cert |-> c, cut |-> k],
                     SubSeq(Certificate(c), 1, k))

LoadRegion ==
    /\ pc = "idle"
    /\ \E r \in Regions : Obtain([fn |-> "region"], r)

CallReadASN1Length ==
    /\ pc = "ready"
    /\ origin.fn \in {"encodeDERLength", "region"}
    /\ \E offset \in 0..MaxRegionLen :
          Return([fn |-> "readASN1Length", offset |-> offset],
                 readASN1Length(buffer, offset))

CallReadDERLength ==
    /\ pc = "ready"
    /\ origin.fn \in {"encodeDERLength", "region"}
    /\ Return([fn |-> "readDERLength"], [ok |-> TRUE, val |-> readDERLength(buffer)])

CallSkipDERLength ==
    /\ pc = "ready"
    /\ origin.fn \in {"encodeDERLength", "region"}
    /\ Return([fn |-> "skipDERLength"], [ok |-> TRUE, val |-> skipDERLength(buffer)])

CallBytesToOID ==
    /\ pc = "ready"
    /\ origin.fn \in {"encodeDERObjectIdentifier", "region"}
    /\ Return([fn |-> "bytesToOID"], bytesToOID(buffer))

CallDecodeSerialNumber ==
    /\ pc = "ready"
    /\ origin.fn \in {"certificate", "truncated", "region"}
    /\ Return([fn |-> "decodeSerialNumber"], decodeSerialNumber(buffer))

CallDecodeAKI ==
    /\ pc = "ready"
    /\ origin.fn \in {"certificate", "region"}
    /\ Return([fn |-> "decodeAKI"], decodeAKI(buffer))

CallReadOuterSequence ==
    /\ pc = "ready"
    /\ origin.fn \in {"encodeDERSequence", "encodeDEROctetString", "region"}
    /\ Return([fn |-> "readOuterSequence"], readOuterSequence(buffer))

\* const parts = []; let start = 1;
ReadSequencePartsEnter ==
    /\ pc = "ready"
    /\ origin.fn = "region"
    /\ pc' = "loop"
    /\ call' = [fn |-> "readSequenceParts"]
    /\ start' = 1
    /\ parts' = <<>>
    /\ iters' = 0
    /\ UNCHANGED <<origin, buffer, result>>

\* One iteration of while (start < innerSequence.length); iters counts the
\* iterations and MaxIters bounds the count in the model.
ReadSequencePartsIterate ==
    /\ pc = "loop"
    /\ start < Len(buffer)
    /\ iters < MaxIters
    /\ LET next == readSequencePartsBody(buffer, [start |-> start, parts |-> parts])
       IN  /\ start' = next.start
           /\ parts' = next.parts
    /\ iters' = iters + 1
    /\ UNCHANGED <<pc, origin, buffer, call, result>>

\* return parts.length > 0 ? parts : undefined;
ReadSequencePartsReturn ==
    /\ pc = "loop"
    /\ ~(start < Len(buffer))
    /\ pc' = "done"
    /\ result' = IF Len(parts) > 0 THEN [ok |-> TRUE, val |-> parts] ELSE Undefined
    /\ UNCHANGED <<origin, buffer, call, start, parts, iters>>

Next ==
    \/ CallEncodeDERLength
    \/ CallEncodeDERObjectIdentifier
    \/ CallEncodeDEROctetString
    \/ CallEncodeDERSequence
    \/ LoadCertificate
    \/ LoadTruncated
    \/ LoadRegion
    \/ CallReadASN1Length
    \/ CallReadDERLength
    \/ CallSkipDERLength
    \/ CallBytesToOID
    \/ CallDecodeSerialNumber
    \/ CallDecodeAKI
    \/ CallReadOuterSequence
    \/ ReadSequencePartsEnter
    \/ ReadSequencePartsIterate
    \/ ReadSequencePartsReturn

Spec == Init /\ [][Next]_vars

(***************************************************************************)
(* Properties.                                                             *)
(***************************************************************************)
\* The call fn has been applied to the buffer and has returned, thrown or hung.
Called(fn) == pc \in {"done", "hung"} /\ call.fn = fn

\* The call returned a hex string.
ReturnsHex(bytes) == pc = "done" /\ result = [ok |-> TRUE, val |-> toHex(bytes)]

\* C1: on a well-formed certificate, whichever length form the Certificate
\* and tbsCertificate SEQUENCEs use, decodeSerialNumber returns the hex of
\* exactly the content bytes of the serialNumber INTEGER.
SerialNumberExact ==
    (Called("decodeSerialNumber") /\ origin.fn = "certificate")
        => ReturnsHex(origin.cert.serial)

\* C2: on a well-formed certificate with an Extension 2.5.29.35, decodeAKI
\* returns the hex of exactly the n content bytes of the keyIdentifier [0]
\* field, for every declared length n, and no byte of a field after it.
KeyIdentifierExact ==
    (Called("decodeAKI") /\ origin.fn = "certificate" /\ origin.cert.aki.present)
        => ReturnsHex(KeyId(origin.cert.aki.n))

\* C3: on a certificate whose Extensions hold no Extension 2.5.29.35,
\* decodeAKI ends in a failure outcome and returns no hex string.
MissingAKIFails ==
    (Called("decodeAKI") /\ origin.fn = "certificate" /\ ~origin.cert.aki.present)
        => (pc = "done" /\ ~result.ok)

\* C4: on a buffer cut short before the last content byte of the
\* serialNumber INTEGER, decodeSerialNumber ends in a failure outcome and
\* returns no hex string.
TruncatedSerialFails ==
    (Called("decodeSerialNumber") /\ origin.fn = "truncated")
        => (pc = "done" /\ ~result.ok)

\* C5: length round trip: decoding encodeDERLength(n) yields n, with
\* readASN1Length at offset 0 (its length field) and with readDERLength.
LengthRoundTrip ==
    (pc = "done" /\ origin.fn = "encodeDERLength") =>
        /\ (call.fn = "readASN1Length" /\ call.offset = 0)
              => (result.ok /\ result.length = origin.n)
        /\ call.fn = "readDERLength" => result.val = origin.n

LengthRoundTripReached ==
    /\ pc = "done"
    /\ origin.fn = "encodeDERLength"
    /\ origin.n = 16777215
    /\ buffer = <<131, 255, 255, 255>>
    /\ call.fn = "readASN1Length"
    /\ call.offset = 0
    /\ result.ok
    /\ result.length = 16777215

\* The OIDs of the round trip: at least two components, none negative, the
\* first in {0, 1, 2}, the second below 40 when the first is below 2.
InRoundTripDomain(numbers) ==
    /\ Len(numbers) >= 2
    /\ \A k \in 1..Len(numbers) : numbers[k] >= 0
    /\ numbers[1] \in {0, 1, 2}
    /\ numbers[1] < 2 => numbers[2] < 40

\* C6: OID round trip: bytesToOID(encodeDERObjectIdentifier(s)) = s for
\* every dotted string s of the round trip's OIDs.
OIDRoundTrip ==
    (Called("bytesToOID") /\ origin.fn = "encodeDERObjectIdentifier"
                          /\ InRoundTripDomain(numbersOf(origin.oid)))
        => (pc = "done" /\ result = [ok |-> TRUE, val |-> origin.oid])

\* C7: where readASN1Length succeeds, lengthOfLength counts the bytes of the
\* length field with its leading indicator byte (1 for the short form, k + 1
\* for a long form with k following bytes); on the bytes of encodeDERLength(n)
\* it is their count.
LengthOfLengthCountsIndicator ==
    (pc = "done" /\ call.fn = "readASN1Length" /\ result.ok) =>
        /\ result.lengthOfLength =
              (IF At(buffer, call.offset) < 128 THEN 1
               ELSE (At(buffer, call.offset) % 128) + 1)
        /\ (origin.fn = "encodeDERLength" /\ call.offset = 0)
              => result.lengthOfLength = Len(buffer)

\* C8: encodeDERObjectIdentifier fails and returns no bytes for a dotted
\* string with fewer than two components or with a negative component, the
\* first and the second included.
InvalidOIDRejected ==
    (origin.fn = "encodeDERObjectIdentifier"
        /\ (\/ Len(numbersOf(origin.oid)) < 2
            \/ \E k \in 1..Len(numbersOf(origin.oid)) : numbersOf(origin.oid)[k] < 0))
        => (pc = "done" /\ call.fn = "encodeDERObjectIdentifier"
                        /\ ~result.ok /\ buffer = <<>>)

\* The bytes of a SEQUENCE's children before child k.
childOffset(elements, k) == totalLength(SubSeq(elements, 1, k - 1))

\* C9: encodeDERSequence yields 0x30, encodeDERLength of the sum of the
\* children's lengths, then the children in the caller's order;
\* encodeDEROctetString(d) yields 0x04, encodeDERLength(|d|), then d; hence
\* encodeDERSequence([encodeDEROctetString([0xAA, 0xBB])]) is
\* 30 04 04 02 AA BB.
WrapperLayout ==
    /\ origin.fn = "encodeDERSequence" =>
          LET total == totalLength(origin.elements)
              header == 1 + Len(encodeDERLength(total))
          IN  /\ Len(buffer) = header + total
              /\ buffer[1] = 48
              /\ SubSeq(buffer, 2, header) = encodeDERLength(total)
              /\ \A k \in 1..Len(origin.elements) :
                    SubSeq(buffer, header + childOffset(origin.elements, k) + 1,
                           header + childOffset(origin.elements, k + 1))
                        = origin.elements[k]
    /\ origin.fn = "encodeDEROctetString" =>
          LET header == 1 + Len(encodeDERLength(Len(origin.data)))
          IN  /\ Len(buffer) = header + Len(origin.data)
              /\ buffer[1] = 4
              /\ SubSeq(buffer, 2, header) = encodeDERLength(Len(origin.data))
              /\ SubSeq(buffer, header + 1, Len(buffer)) = origin.data
    /\ (origin.fn = "encodeDERSequence"
            /\ origin.elements = <<encodeDEROctetString(<<170, 187>>)>>)
          => buffer = <<48, 4, 4, 2, 170, 187>>

WrapperLayoutReached ==
    /\ pc = "ready"
    /\ origin.fn = "encodeDERSequence"
    /\ origin.elements = <<<<4, 2, 170, 187>>>>
    /\ buffer = <<48, 4, 4, 2, 170, 187>>

\* C10: readSequenceParts terminates on every region, after a number of
\* loop iterations bounded by the length of the region.
ReadSequencePartsBounded ==
    pc = "loop" => iters <= Len(buffer)

\* The read is inside the buffer it reads.
InBounds(r) == r.index >= 0 /\ r.index < r.length

\* C11: on every input buffer, no step of decodeSerialNumber or decodeAKI
\* reads a buffer at an index at or beyond its length.
ReadsWithinBounds ==
    /\ Called("decodeSerialNumber")
          => \A r \in decodeSerialNumberReads(buffer) : InBounds(r)
    /\ Called("decodeAKI")
          => \A r \in decodeAKIReads(buffer) : InBounds(r)

\* The reference: the content of a SEQUENCE, that is the declared number of
\* bytes from the first byte after the length field on (1 length byte in
\* the short form, 1 + k in a long form with k following bytes), or failure
\* when the tag is not 0x30 or the length cannot be read.
unwrapSequence(buf) ==
    IF At(buf, 0) # 48 \/ ~readASN1Length(buf, 1).ok THEN Undefined
    ELSE LET declared == readASN1Length(buf, 1).length
             first == IF At(buf, 1) < 128 THEN 2 ELSE 2 + (At(buf, 1) % 128)
         IN  [ok |-> TRUE, val |-> slice(buf, first, first + declared)]

\* C12: readOuterSequence agrees with the reference on every buffer, for
\* short-form and long-form lengths alike.
OuterSequenceReference ==
    Called("readOuterSequence") => (pc = "done" /\ result = unwrapSequence(buffer))

====
